---- MODULE Spec2Model ----
(***************************************************************************)
(* term-tetris (src/src/main.rs): the board, the piece, the game and the   *)
(* main loop, as a state machine.                                          *)
(***************************************************************************)
EXTENDS Integers, Sequences, FiniteSets, TLC

VARIABLES
    game,        \* struct Game: board, cur, next, score, level, lines, over
    gravity,     \* main's `gravity`, in milliseconds
    pc,          \* position of main's loop (or of the caller of a function)
    last,        \* the operation that ran last: its name, arguments, results,
                 \* and the Game it ran on
    keys,        \* key events handled so far
    ticks,       \* gravity ticks taken so far
    budget,      \* gravity ticks the run is followed for
    term,        \* the terminal: raw mode, alternate screen, hidden cursor
    now,         \* main's `now`, in milliseconds since the start of the run
    last_grav,   \* main's `last_grav`, in milliseconds since the start of the run
    board_dirty, \* main's `board_dirty`
    last_drawn,  \* main's `last_drawn`: no piece, or the piece drawn last
    screen,      \* what the terminal shows: the playfield cells and the HUD
    frame        \* what the current iteration did: the timer at its start,
                 \* whether its gravity step ticked and locked, and what its
                 \* render step wrote

vars == <<game, gravity, pc, last, keys, ticks, budget,
          term, now, last_grav, board_dirty, last_drawn, screen, frame>>

(***************************************************************************)
(* Program constants                                                       *)
(***************************************************************************)
W == 10
H == 20

None == "None"

\* enum Kind, in declaration order
KindSeq == <<"I", "O", "T", "S", "Z", "J", "L">>
Kinds == {KindSeq[i] : i \in 1..Len(KindSeq)}

(***************************************************************************)
(* Bounds of the model                                                     *)
(***************************************************************************)
Margin == 1        \* anchors of the pieces handed to the piece functions
                   \* range this far beyond every anchor that can be legal
MaxFull == 3       \* full rows of the boards handed to clear_lines
MaxLevelArg == 110 \* levels handed to gravity_delay_ms
NumKinds == 2      \* kinds the random generator draws from (a prefix of KindSeq)
MaxKeys == 2       \* key events handled in one run of the loop
MaxTicks == 2      \* gravity ticks taken in one run of the loop
FallSlack == 2     \* gravity ticks granted to the fall of one piece, beyond H

(***************************************************************************)
(* Piece                                                                   *)
(***************************************************************************)
Piece(kind, rot, x, y) == [kind |-> kind, rot |-> rot, x |-> x, y |-> y]

\* Piece::new
new_piece(kind) == Piece(kind, 0, 3, 0)

\* the static tables of Piece::shape: 4 rotation states of 4 (dx, dy) offsets
Shapes == [kind \in Kinds |->
    CASE kind = "I" -> << << <<0,1>>, <<1,1>>, <<2,1>>, <<3,1>> >>,
                          << <<2,0>>, <<2,1>>, <<2,2>>, <<2,3>> >>,
                          << <<0,2>>, <<1,2>>, <<2,2>>, <<3,2>> >>,
                          << <<1,0>>, <<1,1>>, <<1,2>>, <<1,3>> >> >>
      [] kind = "O" -> << << <<1,0>>, <<2,0>>, <<1,1>>, <<2,1>> >>,
                          << <<1,0>>, <<2,0>>, <<1,1>>, <<2,1>> >>,
                          << <<1,0>>, <<2,0>>, <<1,1>>, <<2,1>> >>,
                          << <<1,0>>, <<2,0>>, <<1,1>>, <<2,1>> >> >>
      [] kind = "T" -> << << <<1,0>>, <<0,1>>, <<1,1>>, <<2,1>> >>,
                          << <<1,0>>, <<1,1>>, <<2,1>>, <<1,2>> >>,
                          << <<0,1>>, <<1,1>>, <<2,1>>, <<1,2>> >>,
                          << <<1,0>>, <<0,1>>, <<1,1>>, <<1,2>> >> >>
      [] kind = "S" -> << << <<1,0>>, <<2,0>>, <<0,1>>, <<1,1>> >>,
                          << <<1,0>>, <<1,1>>, <<2,1>>, <<2,2>> >>,
                          << <<1,1>>, <<2,1>>, <<0,2>>, <<1,2>> >>,
                          << <<0,0>>, <<0,1>>, <<1,1>>, <<1,2>> >> >>
      [] kind = "Z" -> << << <<0,0>>, <<1,0>>, <<1,1>>, <<2,1>> >>,
                          << <<2,0>>, <<1,1>>, <<2,1>>, <<1,2>> >>,
                          << <<0,1>>, <<1,1>>, <<1,2>>, <<2,2>> >>,
                          << <<1,0>>, <<0,1>>, <<1,1>>, <<0,2>> >> >>
      [] kind = "J" -> << << <<0,0>>, <<0,1>>, <<1,1>>, <<2,1>> >>,
                          << <<1,0>>, <<2,0>>, <<1,1>>, <<1,2>> >>,
                          << <<0,1>>, <<1,1>>, <<2,1>>, <<2,2>> >>,
                          << <<1,0>>, <<1,1>>, <<0,2>>, <<1,2>> >> >>
      [] kind = "L" -> << << <<2,0>>, <<0,1>>, <<1,1>>, <<2,1>> >>,
                          << <<1,0>>, <<1,1>>, <<1,2>>, <<2,2>> >>,
                          << <<0,1>>, <<1,1>>, <<2,1>>, <<0,2>> >>,
                          << <<0,0>>, <<1,0>>, <<1,1>>, <<1,2>> >> >> ]

\* Piece::shape
shape(kind) == Shapes[kind]

\* Piece::blocks
blocks(p) == shape(p.kind)[p.rot + 1]

(***************************************************************************)
(* Board                                                                   *)
(***************************************************************************)
Cols == 0..(W - 1)
Rows == 0..(H - 1)

EmptyRow == [x \in Cols |-> None]

\* Board::new
new_board == [y \in Rows |-> EmptyRow]

\* Board::inside
inside(x, y) == x >= 0 /\ x < W /\ y >= 0 /\ y < H

\* Board::get
get(grid, x, y) == IF inside(x, y) THEN grid[y][x] ELSE None

\* Board::set
set(grid, x, y, c) ==
    IF inside(x, y) THEN [grid EXCEPT ![y] = [@ EXCEPT ![x] = c]] ELSE grid

\* Board::lock_piece: the 4 blocks are written one after the other
RECURSIVE lock_from(_, _, _)
lock_from(grid, p, i) ==
    IF i > 4 THEN grid
    ELSE LET d == blocks(p)[i]
         IN  lock_from(set(grid, p.x + d[1], p.y + d[2], p.kind), p, i + 1)

lock_piece(grid, p) == lock_from(grid, p, 1)

\* a row counted as full as soon as one cell is occupied
row_any(grid, y) == \E x \in Cols : get(grid, x, y) # None

\* the closure of clear_lines' scan
row_full(grid, y) == \A x \in Cols : get(grid, x, y) # None

\* Board::clear_lines, first loop: y runs from H-1 down to 0
RECURSIVE clear_scan(_, _, _, _)
clear_scan(grid, y, write_y, cleared) ==
    IF y < 0 THEN [grid |-> grid, write_y |-> write_y, cleared |-> cleared]
    ELSE IF ~row_full(grid, y)
         THEN clear_scan(IF write_y # y THEN [grid EXCEPT ![write_y] = grid[y]]
                                         ELSE grid,
                         y - 1, write_y - 1, cleared)
         ELSE clear_scan(grid, y - 1, write_y, cleared + 1)

\* clear_lines counting the full rows and leaving the grid as it is
clear_lines_count_only(grid) ==
    [grid |-> grid, cleared |-> clear_scan(grid, H - 1, H - 1, 0).cleared]

\* clear_lines without its second loop: the top rows keep their contents
clear_lines_top_kept(grid) ==
    LET s == clear_scan(grid, H - 1, H - 1, 0)
    IN  [grid |-> s.grid, cleared |-> s.cleared]

\* Board::clear_lines: the scan, then rows 0..=write_y are emptied
clear_lines(grid) ==
    LET s == clear_scan(grid, H - 1, H - 1, 0)
    IN  [grid    |-> [y \in Rows |-> IF y <= s.write_y THEN EmptyRow ELSE s.grid[y]],
         cleared |-> s.cleared]

\* Board::collides: the blocks are tested in order, with early returns
RECURSIVE collides_from(_, _, _)
collides_from(grid, p, i) ==
    IF i > 4 THEN FALSE
    ELSE LET d == blocks(p)[i]
             x == p.x + d[1]
             y == p.y + d[2]
         IN  IF ~inside(x, y) THEN TRUE
             ELSE IF get(grid, x, y) # None THEN TRUE
             ELSE collides_from(grid, p, i + 1)

\* collides without the range test: a cell out of range reads as empty
collides_unranged(grid, p) ==
    \E i \in 1..4 : get(grid, p.x + blocks(p)[i][1], p.y + blocks(p)[i][2]) # None

collides(grid, p) == collides_from(grid, p, 1)

(***************************************************************************)
(* Piece::try_move, Piece::try_rotate, hard_drop, gravity_delay_ms         *)
(***************************************************************************)
\* try_move working on *self: a failed move leaves the piece moved
try_move_in_place(self, grid, dx, dy) ==
    LET p == [self EXCEPT !.x = @ + dx, !.y = @ + dy]
    IN  [ok |-> ~collides(grid, p), self |-> p]

\* Piece::try_move: the returned bool and the value of *self afterwards
try_move(self, grid, dx, dy) ==
    LET p == [self EXCEPT !.x = @ + dx, !.y = @ + dy]
    IN  IF collides(grid, p) THEN [ok |-> FALSE, self |-> self]
                             ELSE [ok |-> TRUE, self |-> p]

\* the kicks with right before left
KicksRightFirst == <<0, 1, -1, 2, -2>>

\* the kicks of try_rotate, in the order of its for loop
Kicks == <<0, -1, 1, -2, 2>>

RECURSIVE rotate_from(_, _, _, _)
rotate_from(self, grid, p, i) ==
    IF i > Len(Kicks) THEN [ok |-> FALSE, self |-> self]
    ELSE LET t == [p EXCEPT !.x = @ + Kicks[i]]
         IN  IF ~collides(grid, t) THEN [ok |-> TRUE, self |-> t]
             ELSE rotate_from(self, grid, p, i + 1)

\* Piece::try_rotate
try_rotate(self, grid, cw) ==
    LET p == [self EXCEPT !.rot = (@ + (IF cw THEN 1 ELSE 3)) % 4]
    IN  rotate_from(self, grid, p, 1)

\* u32::saturating_sub, u64::saturating_sub
saturating_sub(a, b) == IF a >= b THEN a - b ELSE 0

min(a, b) == IF a <= b THEN a ELSE b

\* the delay with the ramp one level longer
gravity_delay_ms_16(level) ==
    LET base == 800
        step == min(saturating_sub(level, 1), 16) * 45
    IN  saturating_sub(base, step)

\* gravity_delay_ms
gravity_delay_ms(level) ==
    LET base == 800
        step == min(saturating_sub(level, 1), 15) * 45
    IN  saturating_sub(base, step)

\* hard_drop: the while loop
RECURSIVE hard_drop_from(_, _, _)
hard_drop_from(grid, p, rows) ==
    IF ~collides(grid, [p EXCEPT !.y = @ + 1])
    THEN hard_drop_from(grid, [p EXCEPT !.y = @ + 1], rows + 1)
    ELSE [p |-> p, rows |-> rows]

\* the drop that stops after one row
hard_drop_one_row(grid, p) ==
    IF ~collides(grid, [p EXCEPT !.y = @ + 1])
    THEN [p |-> [p EXCEPT !.y = @ + 1], rows |-> 1]
    ELSE [p |-> p, rows |-> 0]

hard_drop(grid, p) == hard_drop_from(grid, p, 0)

(***************************************************************************)
(* Game                                                                    *)
(***************************************************************************)
\* the kinds the random generator draws from
RngKinds == {KindSeq[i] : i \in 1..min(NumKinds, Len(KindSeq))}

\* Game::new, with the two kinds drawn
new_game(first, next) ==
    [board |-> new_board, cur |-> new_piece(first), next |-> next,
     score |-> 0, level |-> 1, lines |-> 0, over |-> FALSE]

\* spawn_next with the collision test before the assignment of cur: it tests
\* the piece that was just locked
spawn_next_stale(g, rnd) ==
    LET g1 == [g EXCEPT !.cur = new_piece(g.next), !.next = rnd]
    IN  IF collides(g.board, g.cur) THEN [g1 EXCEPT !.over = TRUE] ELSE g1

\* Game::spawn_next, with the kind drawn for the new next
spawn_next(g, rnd) ==
    LET g1 == [g EXCEPT !.cur = new_piece(g.next), !.next = rnd]
    IN  IF collides(g1.board, g1.cur) THEN [g1 EXCEPT !.over = TRUE] ELSE g1

(***************************************************************************)
(* main: the arms of the key match                                         *)
(***************************************************************************)
\* the side keys moving the piece without the test of try_move
key_side_unchecked(g, dx) == [g EXCEPT !.cur = [@ EXCEPT !.x = @ + dx]]

\* Left | 'a' (dx = -1) and Right | 'd' (dx = 1)
key_side(g, dx) ==
    LET r == try_move(g.cur, g.board, dx, 0)
    IN  IF r.ok THEN [g EXCEPT !.cur = r.self] ELSE g

\* the soft drop scoring the key, not the move
key_down_always_scored(g) ==
    LET r == try_move(g.cur, g.board, 0, 1)
    IN  [g EXCEPT !.cur = r.self, !.score = @ + 1]

\* Down | 's'
key_down(g) ==
    LET r == try_move(g.cur, g.board, 0, 1)
    IN  IF r.ok THEN [g EXCEPT !.cur = r.self, !.score = @ + 1] ELSE g

\* the rotation keys lifting the rotated piece by one row
key_rotate_lifting(g, cw) ==
    LET r == try_rotate(g.cur, g.board, cw)
    IN  IF r.ok /\ r.self.y > 0
        THEN [g EXCEPT !.cur = [r.self EXCEPT !.y = @ - 1]]
        ELSE g

\* the rotation keys turning the piece without the test of try_rotate
key_rotate_unchecked(g, cw) ==
    [g EXCEPT !.cur = [@ EXCEPT !.rot = (@ + (IF cw THEN 1 ELSE 3)) % 4]]

\* Up | 'w' | 'k' (cw) and 'j' (counter-clockwise)
key_rotate(g, cw) ==
    LET r == try_rotate(g.cur, g.board, cw)
    IN  IF r.ok THEN [g EXCEPT !.cur = r.self] ELSE g

\* ' '
key_space(g) ==
    LET d == hard_drop(g.board, g.cur)
    IN  [g EXCEPT !.cur = d.p, !.score = @ + d.rows * 2]

(***************************************************************************)
(* main: the gravity tick                                                  *)
(***************************************************************************)
\* the match on `cleared`
line_points(cleared) ==
    CASE cleared = 1 -> 100
      [] cleared = 2 -> 300
      [] cleared = 3 -> 500
      [] cleared = 4 -> 800
      [] OTHER -> 1000

\* the level-up check before the score: the clear counts at the new level
score_lines_level_first(g, grav, cleared) ==
    LET up == (g.lines + cleared) \div 10 >= g.level
        lv == IF up THEN g.level + 1 ELSE g.level
    IN  [g |-> [g EXCEPT !.lines = @ + cleared, !.level = lv,
                         !.score = @ + line_points(cleared) * lv],
         gravity |-> IF up THEN gravity_delay_ms(lv) ELSE grav]

\* the level-up check with > for >=
score_lines_level_late(g, grav, cleared) ==
    LET g1 == [g EXCEPT !.lines = @ + cleared,
                        !.score = @ + line_points(cleared) * g.level]
    IN  IF g1.lines \div 10 > g1.level
        THEN [g |-> [g1 EXCEPT !.level = @ + 1],
              gravity |-> gravity_delay_ms(g1.level + 1)]
        ELSE [g |-> g1, gravity |-> grav]

\* the level-up that leaves the gravity delay as it was
score_lines_gravity_kept(g, grav, cleared) ==
    LET g1 == [g EXCEPT !.lines = @ + cleared,
                        !.score = @ + line_points(cleared) * g.level]
    IN  IF g1.lines \div 10 >= g1.level
        THEN [g |-> [g1 EXCEPT !.level = @ + 1], gravity |-> grav]
        ELSE [g |-> g1, gravity |-> grav]

\* the body of `if cleared > 0`: lines, score, then the level-up check
score_lines(g, grav, cleared) ==
    LET g1 == [g EXCEPT !.lines = @ + cleared,
                        !.score = @ + line_points(cleared) * g.level]
    IN  IF g1.lines \div 10 >= g1.level
        THEN [g |-> [g1 EXCEPT !.level = @ + 1],
              gravity |-> gravity_delay_ms(g1.level + 1)]
        ELSE [g |-> g1, gravity |-> grav]

\* the tick with the lines cleared before the piece is written to the board
gravity_tick_clear_first(g, grav, rnd) ==
    LET r == try_move(g.cur, g.board, 0, 1)
    IN  IF ~r.ok
        THEN LET c  == clear_lines(g.board)
                 g1 == [g EXCEPT !.board = lock_piece(c.grid, r.self)]
                 s  == IF c.cleared > 0 THEN score_lines(g1, grav, c.cleared)
                                        ELSE [g |-> g1, gravity |-> grav]
                 g2 == spawn_next(s.g, rnd)
             IN  [g |-> g2, gravity |-> s.gravity, locked |-> TRUE,
                  cleared |-> c.cleared, brk |-> g2.over]
        ELSE [g |-> [g EXCEPT !.cur = r.self], gravity |-> grav, locked |-> FALSE,
              cleared |-> 0, brk |-> FALSE]

\* the body of `if now.duration_since(last_grav) >= gravity`
gravity_tick(g, grav, rnd) ==
    LET r == try_move(g.cur, g.board, 0, 1)
    IN  IF ~r.ok
        THEN LET c  == clear_lines(lock_piece(g.board, r.self))
                 g1 == [g EXCEPT !.board = c.grid]
                 s  == IF c.cleared > 0 THEN score_lines(g1, grav, c.cleared)
                                        ELSE [g |-> g1, gravity |-> grav]
                 g2 == spawn_next(s.g, rnd)
             IN  [g |-> g2, gravity |-> s.gravity, locked |-> TRUE,
                  cleared |-> c.cleared, brk |-> g2.over]
        ELSE [g |-> [g EXCEPT !.cur = r.self], gravity |-> grav, locked |-> FALSE,
              cleared |-> 0, brk |-> FALSE]

(***************************************************************************)
(* Drawing.  The screen is kept per playfield cell: the cell (x, y) of the *)
(* board is the two terminal columns 1 + 2x, 2 + 2x of terminal row 1 + y. *)
(* A cell shows a background colour or is blank; a write aimed at a cell   *)
(* outside the playfield is kept in `stray`.  The HUD is kept as the three *)
(* numbers printed.                                                        *)
(***************************************************************************)
Blank == "Blank"

\* color_for
Colors ==
    [kind \in Kinds |->
        CASE kind = "I" -> "Cyan"
          [] kind = "O" -> "Yellow"
          [] kind = "T" -> "Magenta"
          [] kind = "S" -> "Green"
          [] kind = "Z" -> "Red"
          [] kind = "J" -> "Blue"
          [] kind = "L" -> "DarkYellow"]

color_for(kind) == Colors[kind]

\* Clear(ClearType::All)
clear_screen ==
    [cells |-> [y \in Rows |-> [x \in Cols |-> Blank]], stray |-> {},
     hud |-> <<>>]

\* MoveTo(1 + 2x, 1 + y) and the print of two columns in the colour c
\* (draw_block), or of two blank columns
put(scr, x, y, c) ==
    IF inside(x, y)
    THEN [scr EXCEPT !.cells[y][x] = c]
    ELSE [scr EXCEPT !.stray = @ \cup {<<x, y>>}]

\* the prints of the score, the level and the lines
draw_hud(scr, g) == [scr EXCEPT !.hud = <<g.score, g.level, g.lines>>]

\* draw_board: every cell of the playfield is written
draw_board(scr, b) ==
    [scr EXCEPT !.cells =
        [y \in Rows |-> [x \in Cols |->
            IF get(b, x, y) # None THEN color_for(get(b, x, y)) ELSE Blank]]]

\* draw_piece: the blocks inside the board are drawn one after the other
RECURSIVE draw_from(_, _, _)
draw_from(scr, p, i) ==
    IF i > 4 THEN scr
    ELSE LET d == blocks(p)[i]
             x == p.x + d[1]
             y == p.y + d[2]
         IN  draw_from(IF inside(x, y) THEN put(scr, x, y, color_for(p.kind))
                                       ELSE scr, p, i + 1)

draw_piece(scr, p) == draw_from(scr, p, 1)

\* the erasure of the piece drawn last: its 4 blocks are blanked, with no
\* test of the position
RECURSIVE erase_from(_, _, _)
erase_from(scr, prev, i) ==
    IF i > 4 THEN scr
    ELSE LET d == blocks(prev)[i]
         IN  erase_from(put(scr, prev.x + d[1], prev.y + d[2], Blank), prev, i + 1)

\* the erasure left out
erase_piece_skipped(scr, prev) == scr

erase_piece(scr, prev) == erase_from(scr, prev, 1)

\* the initial full draw; the preview piece of draw_ui is anchored at
\* x = W + 6, outside the board, where draw_piece draws nothing
initial_draw(g) ==
    draw_piece(draw_board(draw_hud(clear_screen, g), g.board), g.cur)

\* Option<DrawnPiece>: no piece, or one piece
Nothing == <<>>
Some(p) == <<p>>

\* the redraw with the board drawn in every iteration
redraw_board_always(scr, g, dirty, prev) ==
    LET s1 == draw_board(scr, g.board)
        s2 == IF prev # Nothing THEN erase_piece(s1, prev[1]) ELSE s1
    IN  [screen |-> draw_hud(draw_piece(s2, g.cur), g),
         board  |-> TRUE,
         erased |-> prev,
         piece  |-> Some(g.cur),
         hud    |-> <<g.score, g.level, g.lines>>]

\* the incremental redraw: the screen it leaves, and what it has written (the
\* whole board or not, the piece erased, the piece drawn, the HUD numbers)
redraw(scr, g, dirty, prev) ==
    LET s1 == IF dirty THEN draw_board(scr, g.board) ELSE scr
        s2 == IF prev # Nothing THEN erase_piece(s1, prev[1]) ELSE s1
    IN  [screen |-> draw_hud(draw_piece(s2, g.cur), g),
         board  |-> dirty,
         erased |-> prev,
         piece  |-> Some(g.cur),
         hud    |-> <<g.score, g.level, g.lines>>]

(***************************************************************************)
(* The terminal                                                            *)
(***************************************************************************)
\* before enable_raw_mode and after the teardown
TermNormal == [raw |-> FALSE, alt |-> FALSE, hidden |-> FALSE]

\* after enable_raw_mode and EnterAlternateScreen, Hide
TermGame == [raw |-> TRUE, alt |-> TRUE, hidden |-> TRUE]

\* the history of an iteration, before its first one
NoFrame ==
    [timer |-> 0, ticked |-> FALSE, locked |-> FALSE, rendered |-> FALSE,
     board |-> FALSE, erased |-> Nothing, prev |-> Nothing, piece |-> Nothing,
     hud |-> <<>>]

(***************************************************************************)
(* The record of the operation that ran last                               *)
(***************************************************************************)
Op(op, ok, n, a, b, pre) ==
    [op |-> op, ok |-> ok, n |-> n, arg |-> <<a, b>>, pre |-> pre]

NoOp(g) == Op("none", FALSE, 0, 0, 0, g)

(***************************************************************************)
(* The loop of main.  One iteration is three steps: the input step (at     *)
(* most one key event), the gravity step (the tick, when the timer has     *)
(* run out) and the render step.  Time is measured in milliseconds since   *)
(* the start of the run; between the starts of two iterations either no    *)
(* time to speak of passes, or one whole gravity delay.                    *)
(***************************************************************************)
\* the time passed since the start of the iteration before
Durations == {0} \cup (IF ticks < budget THEN {gravity} ELSE {})

\* `let now = Instant::now()` at the top of the iteration
IterStart ==
    /\ \E d \in Durations : now' = now + d
    /\ frame' = [NoFrame EXCEPT !.piece = frame.piece, !.timer = last_grav]
    /\ UNCHANGED <<budget, term, last_grav, board_dirty, last_drawn, screen>>

Running == pc = "input" /\ keys < MaxKeys

\* poll() returns false, or the event read is no key event
NoKey ==
    /\ pc = "input"
    /\ pc' = "gravity"
    /\ UNCHANGED <<game, gravity, last, keys, ticks>>
    /\ IterStart

\* 'q' | Esc
KeyQuit ==
    /\ Running
    /\ pc' = "done"
    /\ last' = Op("Quit", TRUE, 0, 0, 0, game)
    /\ keys' = keys + 1
    /\ UNCHANGED <<game, gravity, ticks>>
    /\ IterStart

\* Ctrl+C
KeyCtrlC ==
    /\ Running
    /\ pc' = "done"
    /\ last' = Op("CtrlC", TRUE, 0, 0, 0, game)
    /\ keys' = keys + 1
    /\ UNCHANGED <<game, gravity, ticks>>
    /\ IterStart

\* Left | 'a'
KeyLeft ==
    /\ Running
    /\ game' = key_side(game, -1)
    /\ last' = Op("Left", try_move(game.cur, game.board, -1, 0).ok, 0, -1, 0, game)
    /\ pc' = "gravity"
    /\ keys' = keys + 1
    /\ UNCHANGED <<gravity, ticks>>
    /\ IterStart

\* Right | 'd'
KeyRight ==
    /\ Running
    /\ game' = key_side(game, 1)
    /\ last' = Op("Right", try_move(game.cur, game.board, 1, 0).ok, 0, 1, 0, game)
    /\ pc' = "gravity"
    /\ keys' = keys + 1
    /\ UNCHANGED <<gravity, ticks>>
    /\ IterStart

\* Down | 's'
KeyDown ==
    /\ Running
    /\ game' = key_down(game)
    /\ last' = Op("Down", try_move(game.cur, game.board, 0, 1).ok, 0, 0, 1, game)
    /\ pc' = "gravity"
    /\ keys' = keys + 1
    /\ UNCHANGED <<gravity, ticks>>
    /\ IterStart

\* Up | 'w' | 'k'
KeyRotateCw ==
    /\ Running
    /\ game' = key_rotate(game, TRUE)
    /\ last' = Op("RotateCw", try_rotate(game.cur, game.board, TRUE).ok, 0, 1, 0, game)
    /\ pc' = "gravity"
    /\ keys' = keys + 1
    /\ UNCHANGED <<gravity, ticks>>
    /\ IterStart

\* 'j'
KeyRotateCcw ==
    /\ Running
    /\ game' = key_rotate(game, FALSE)
    /\ last' = Op("RotateCcw", try_rotate(game.cur, game.board, FALSE).ok, 0, 0, 0, game)
    /\ pc' = "gravity"
    /\ keys' = keys + 1
    /\ UNCHANGED <<gravity, ticks>>
    /\ IterStart

\* ' '
KeySpace ==
    /\ Running
    /\ game' = key_space(game)
    /\ last' = Op("Space", TRUE, hard_drop(game.board, game.cur).rows, 0, 0, game)
    /\ pc' = "gravity"
    /\ keys' = keys + 1
    /\ UNCHANGED <<gravity, ticks>>
    /\ IterStart

\* any other key: `_ => {}`
KeyOther ==
    /\ Running
    /\ last' = Op("Other", TRUE, 0, 0, 0, game)
    /\ pc' = "gravity"
    /\ keys' = keys + 1
    /\ UNCHANGED <<game, gravity, ticks>>
    /\ IterStart

\* the gravity timer has not run out
GravitySkip ==
    /\ pc = "gravity"
    /\ now - last_grav < gravity
    /\ pc' = "render"
    /\ frame' = [frame EXCEPT !.ticked = FALSE, !.locked = FALSE]
    /\ UNCHANGED <<budget, game, gravity, last, keys, ticks,
                   term, now, last_grav, board_dirty, last_drawn, screen>>

\* the gravity timer has run out
GravityTick ==
    /\ pc = "gravity"
    /\ now - last_grav >= gravity
    /\ ticks < budget
    /\ \E rnd \in RngKinds :
         LET t == gravity_tick(game, gravity, rnd)
         IN  /\ game' = t.g
             /\ gravity' = t.gravity
             /\ last' = Op("tick", ~t.locked, t.cleared, 0, 1, game)
             /\ ticks' = ticks + 1
             /\ last_drawn' = IF t.locked THEN Nothing ELSE last_drawn
             /\ board_dirty' = IF t.locked THEN TRUE ELSE board_dirty
             /\ last_grav' = IF t.brk THEN last_grav ELSE now
             /\ frame' = [frame EXCEPT !.ticked = TRUE, !.locked = t.locked]
             /\ pc' = IF t.brk THEN "done" ELSE "render"
    /\ UNCHANGED <<keys, budget, term, now, screen>>

\* the incremental redraw
Render ==
    /\ pc = "render"
    /\ LET r == redraw(screen, game, board_dirty, last_drawn)
       IN  /\ screen' = r.screen
           /\ frame' = [frame EXCEPT !.rendered = TRUE,
                                     !.board = r.board,
                                     !.erased = r.erased,
                                     !.prev = frame.piece,
                                     !.piece = r.piece,
                                     !.hud = r.hud]
    /\ board_dirty' = FALSE
    /\ last_drawn' = Some(game.cur)
    /\ pc' = "input"
    /\ UNCHANGED <<budget, game, gravity, last, keys, ticks, term, now, last_grav>>

\* after the loop: the footer and the teardown
Footer ==
    /\ pc = "done"
    /\ term' = TermNormal
    /\ pc' = "exit"
    /\ UNCHANGED <<budget, game, gravity, last, keys, ticks,
                   now, last_grav, board_dirty, last_drawn, screen, frame>>

Next ==
    \/ NoKey
    \/ KeyQuit
    \/ KeyCtrlC
    \/ KeyLeft
    \/ KeyRight
    \/ KeyDown
    \/ KeyRotateCw
    \/ KeyRotateCcw
    \/ KeySpace
    \/ KeyOther
    \/ GravitySkip
    \/ GravityTick
    \/ Render
    \/ Footer

(***************************************************************************)
(* Positions of play.  Apart from the new game, the loop is started from   *)
(* positions reached by playing a new game: each is the state the loop's   *)
(* own steps produce from Game::new when every piece of a list is rotated  *)
(* at the top, moved sideways to its column, hard-dropped and locked by    *)
(* the next gravity tick.                                                  *)
(***************************************************************************)
Placement(kind, rot, x) == [kind |-> kind, rot |-> rot, x |-> x]

RECURSIVE rotate_n(_, _)
rotate_n(g, n) == IF n = 0 THEN g ELSE rotate_n(key_rotate(g, TRUE), n - 1)

RECURSIVE side_n(_, _, _)
side_n(g, dx, n) == IF n = 0 THEN g ELSE side_n(key_side(g, dx), dx, n - 1)

\* the keys for one placement, then the tick that locks the piece
place(st, pl, rnd) ==
    LET g1 == rotate_n(st.g, pl.rot)
        g2 == IF pl.x < g1.cur.x THEN side_n(g1, -1, g1.cur.x - pl.x)
                                 ELSE side_n(g1, 1, pl.x - g1.cur.x)
        g3 == key_space(g2)
        t  == gravity_tick(g3, st.gravity, rnd)
    IN  [g |-> t.g, gravity |-> t.gravity]

RECURSIVE play_from(_, _, _, _)
play_from(st, pls, kinds, i) ==
    IF i > Len(pls) \/ st.g.over THEN st
    ELSE play_from(place(st, pls[i], kinds[i + 2]), pls, kinds, i + 1)

\* the state after the placements `pls`, with `cur` falling and `next` to come
play(pls, cur, next) ==
    LET kinds == [i \in 1..(Len(pls) + 2) |->
                    IF i <= Len(pls) THEN pls[i].kind
                    ELSE IF i = Len(pls) + 1 THEN cur ELSE next]
    IN  play_from([g |-> new_game(kinds[1], kinds[2]),
                   gravity |-> gravity_delay_ms(1)],
                  pls, kinds, 1)

\* an I upright in column c; an I flat on columns x..x+3; an O on columns c, c+1
VI(c) == Placement("I", 1, c - 2)
HI(x) == Placement("I", 0, x)
PO(c) == Placement("O", 0, c - 1)

\* ten upright I: four full rows, cleared by the tenth
Clear4 == [c \in 1..10 |-> VI(c - 1)]
\* four flat I and an O: two full rows, cleared by the O
Clear2 == <<HI(0), HI(4), HI(0), HI(4), PO(8)>>
\* two flat I and an O: one full row, cleared by the O, whose top half stays
Clear1 == <<HI(0), HI(4), PO(8)>>
\* nine upright I: four rows full but for column 5
Well4 == <<VI(0), VI(1), VI(2), VI(3), VI(4), VI(6), VI(7), VI(8), VI(9)>>
\* three rows full but for column 5, and one cell above them
Well3 == <<HI(0), HI(6), HI(0), HI(6), HI(0), HI(6), VI(4)>>
\* two rows full but for columns 4 and 5
Well2 == <<HI(0), HI(6), HI(0), HI(6)>>
\* column 5 full up to row 4
Tower == <<VI(5), VI(5), VI(5), VI(5)>>

RECURSIVE times(_, _)
times(seq, n) == IF n = 0 THEN <<>> ELSE seq \o times(seq, n - 1)

\* the placements played and the kinds the falling piece may have
Positions ==
    << [pls |-> <<>>, cur |-> RngKinds],
       [pls |-> Well4, cur |-> {"I"}],
       [pls |-> Well3, cur |-> {"I"}],
       [pls |-> Clear4 \o Clear2 \o Well4, cur |-> {"I"}],
       [pls |-> times(Clear4, 2) \o Well4, cur |-> {"I"}],
       [pls |-> times(Clear4, 2) \o Well3, cur |-> {"I"}],
       [pls |-> times(Clear4, 2) \o Well2, cur |-> {"O"}],
       [pls |-> times(Clear4, 2) \o Clear1 \o <<HI(0)>>, cur |-> {"I"}],
       [pls |-> times(Clear4, 4) \o Well4, cur |-> {"I"}],
       [pls |-> times(Clear4, 5) \o Well4, cur |-> {"I"}],
       [pls |-> Tower, cur |-> {"I"}] >>

\* the terminal, the timer and the screen at the start of an iteration: the
\* game is drawn as the render step leaves it, the timer has just been reset
Drawn(g) ==
    /\ term = TermGame
    /\ now = 0
    /\ last_grav = 0
    /\ board_dirty = FALSE
    /\ last_drawn = Some(g.cur)
    /\ screen = initial_draw(g)
    /\ frame = [NoFrame EXCEPT !.piece = Some(g.cur)]

Init ==
    \E i \in 1..Len(Positions) :
      \E cur \in Positions[i].cur, next \in RngKinds :
        LET st == play(Positions[i].pls, cur, next)
        IN  /\ game = st.g
            /\ gravity = st.gravity
            /\ pc = "input"
            /\ last = NoOp(st.g)
            /\ keys = 0
            /\ ticks = 0
            /\ budget = MaxTicks
            /\ Drawn(st.g)

Spec == Init /\ [][Next]_vars

\* main's other variables, before main has set them
loop == <<budget, term, now, last_grav, board_dirty, last_drawn, screen, frame>>

Idle ==
    /\ budget = MaxTicks
    /\ term = TermNormal
    /\ now = 0
    /\ last_grav = 0
    /\ board_dirty = FALSE
    /\ last_drawn = Nothing
    /\ screen = clear_screen
    /\ frame = NoFrame

(***************************************************************************)
(* main from its first line, with the terminal calls that can fail.  Every *)
(* call of the terminal library returns a Result that main hands on with   *)
(* `?`: a failure ends main at that call.                                  *)
(***************************************************************************)
InitMain ==
    \E first \in RngKinds, next \in RngKinds :
      LET g == new_game(first, next)
      IN  /\ game = g
          /\ gravity = gravity_delay_ms(g.level)
          /\ pc = "start"
          /\ last = NoOp(g)
          /\ keys = 0
          /\ ticks = 0
          /\ Idle

\* the calls of main before the loop
SetupCalls == <<"enable_raw_mode", "enter_alternate_screen", "initial_draw">>

\* the calls of main after the loop
TeardownCalls == <<"footer", "disable_raw_mode", "leave_alternate_screen">>

\* main up to the loop, every call succeeding
Setup ==
    /\ pc = "start"
    /\ term' = TermGame
    /\ last_grav' = now
    /\ screen' = initial_draw(game)
    /\ last_drawn' = Some(game.cur)
    /\ board_dirty' = FALSE
    /\ frame' = [NoFrame EXCEPT !.piece = Some(game.cur)]
    /\ pc' = "input"
    /\ UNCHANGED <<budget, game, gravity, last, keys, ticks, now>>

\* main up to the loop, the i-th call failing: enable_raw_mode leaves the
\* terminal as it was; a failed write of EnterAlternateScreen, Hide may have
\* sent any part of the two commands
SetupFail ==
    /\ pc = "start"
    /\ \E i \in 1..Len(SetupCalls) :
         /\ last' = Op(SetupCalls[i], FALSE, 0, 0, 0, game)
         /\ term' \in CASE i = 1 -> {TermNormal}
                        [] i = 2 -> {[raw |-> TRUE, alt |-> a, hidden |-> h] :
                                        a \in BOOLEAN, h \in BOOLEAN}
                        [] i = 3 -> {TermGame}
    /\ pc' = "failed"
    /\ UNCHANGED <<budget, game, gravity, keys, ticks,
                   now, last_grav, board_dirty, last_drawn, screen, frame>>

\* poll or read fails
PollFail ==
    /\ pc = "input"
    /\ last' = Op("poll", FALSE, 0, 0, 0, game)
    /\ pc' = "failed"
    /\ IterStart
    /\ UNCHANGED <<game, gravity, keys, ticks>>

\* a write or the flush of the redraw fails
RenderFail ==
    /\ pc = "render"
    /\ last' = Op("render", FALSE, 0, 0, 0, game)
    /\ pc' = "failed"
    /\ UNCHANGED <<budget, game, gravity, keys, ticks,
                   term, now, last_grav, board_dirty, last_drawn, screen, frame>>

\* after the loop, the i-th call failing: a failed disable_raw_mode leaves
\* raw mode on; a failed write of Show, LeaveAlternateScreen may have sent
\* any part of the two commands
FooterFail ==
    /\ pc = "done"
    /\ \E i \in 1..Len(TeardownCalls) :
         /\ last' = Op(TeardownCalls[i], FALSE, 0, 0, 0, game)
         /\ term' \in CASE i = 1 -> {term}
                        [] i = 2 -> {term}
                        [] i = 3 -> {[raw |-> FALSE, alt |-> a, hidden |-> h] :
                                        a \in BOOLEAN, h \in BOOLEAN}
    /\ pc' = "failed"
    /\ UNCHANGED <<budget, game, gravity, keys, ticks,
                   now, last_grav, board_dirty, last_drawn, screen, frame>>

NextMain ==
    \/ Setup
    \/ SetupFail
    \/ PollFail
    \/ RenderFail
    \/ FooterFail
    \/ Next

SpecMain == InitMain /\ [][NextMain]_vars

(***************************************************************************)
(* The fall of one piece: the loop from Game::new until the first piece is *)
(* locked or the player quits, with more than H gravity ticks granted.     *)
(* The loop keeps running, and time passes: again and again an iteration   *)
(* starts after the gravity delay has run out.  The kind drawn for `next`  *)
(* is not read before the first lock: it is taken equal to the first.      *)
(***************************************************************************)
InitFall ==
    \E first \in RngKinds :
      LET g == new_game(first, first)
      IN  /\ game = g
          /\ gravity = gravity_delay_ms(g.level)
          /\ pc = "input"
          /\ last = NoOp(g)
          /\ keys = 0
          /\ ticks = 0
          /\ budget = H + FallSlack
          /\ Drawn(g)

\* the first piece has been written to the board
FirstLocked == game.board # new_board

NextFall == ~FirstLocked /\ Next

\* main goes on: every step of the loop takes it to another position, and a
\* step is possible at every position until the piece is locked or main has
\* returned
LoopStep ==
    /\ pc \in {"input", "gravity", "render", "done"}
    /\ ~FirstLocked
    /\ pc' \in {"input", "gravity", "render", "done", "exit"}
    /\ pc' # pc

\* an iteration starts at a time at which the gravity delay has run out
TimerRunsOut ==
    /\ pc = "input"
    /\ ~FirstLocked
    /\ ticks < budget
    /\ pc' \in {"gravity", "done"}
    /\ now' = now + gravity

SpecFall ==
    /\ InitFall
    /\ [][NextFall]_vars
    /\ WF_pc(LoopStep)
    /\ SF_<<pc, now>>(TimerRunsOut)

(***************************************************************************)
(* The functions on their own: a caller hands one bounded input to one     *)
(* function.  `game` holds the board and the piece handed over, and        *)
(* afterwards what the call left of them; `last` holds the arguments and   *)
(* the value returned.                                                     *)
(***************************************************************************)
\* a cell's occupant in the boards built for the calls
KindAt(x, y) == KindSeq[((x + y) % Len(KindSeq)) + 1]

\* boards for the piece functions: a sparse diagonal pattern below row 3,
\* and a shaft two columns wide below row 7
PieceBoards ==
    { [y \in Rows |-> [x \in Cols |->
          IF y >= 4 /\ (x + 2 * y) % 5 = 0 THEN KindAt(x, y) ELSE None]],
      [y \in Rows |-> [x \in Cols |->
          IF y >= 8 /\ x \notin {4, 5} THEN KindAt(x, y) ELSE None]] }

\* every kind and rotation, at every anchor that can be legal (x in -2..8,
\* y in -2..18) and up to Margin beyond
PiecesUnderTest ==
    { Piece(k, r, x, y) : k \in Kinds, r \in 0..3,
                          x \in (-2 - Margin)..(8 + Margin),
                          y \in (-2 - Margin)..(18 + Margin) }

InitPiece ==
    \E b \in PieceBoards, p \in PiecesUnderTest :
      LET g == [new_game(p.kind, p.kind) EXCEPT !.board = b, !.cur = p]
      IN  /\ game = g
          /\ gravity = gravity_delay_ms(1)
          /\ pc = "call"
          /\ last = NoOp(g)
          /\ keys = 0
          /\ ticks = 0
          /\ Idle

CallCollides ==
    /\ pc = "call"
    /\ last' = Op("collides", collides(game.board, game.cur), 0, 0, 0, game)
    /\ pc' = "return"
    /\ UNCHANGED <<game, gravity, keys, ticks, loop>>

CallTryMove ==
    /\ pc = "call"
    /\ \E dx \in -1..1, dy \in 0..1 :
         LET r == try_move(game.cur, game.board, dx, dy)
         IN  /\ game' = [game EXCEPT !.cur = r.self]
             /\ last' = Op("try_move", r.ok, 0, dx, dy, game)
    /\ pc' = "return"
    /\ UNCHANGED <<gravity, keys, ticks, loop>>

CallTryRotate ==
    /\ pc = "call"
    /\ \E cw \in BOOLEAN :
         LET r == try_rotate(game.cur, game.board, cw)
         IN  /\ game' = [game EXCEPT !.cur = r.self]
             /\ last' = Op("try_rotate", r.ok, 0, IF cw THEN 1 ELSE 0, 0, game)
    /\ pc' = "return"
    /\ UNCHANGED <<gravity, keys, ticks, loop>>

NextPiece == CallCollides \/ CallTryMove \/ CallTryRotate

SpecPiece == InitPiece /\ [][NextPiece]_vars

\* sets of at most n rows
RECURSIVE RowSets(_)
RowSets(n) ==
    IF n = 0 THEN {{}}
    ELSE LET s == RowSets(n - 1) IN s \cup {r \cup {y} : r \in s, y \in Rows}

\* the rows that are not full: 1 empty, 2 one gap each, at column y mod W,
\* 3 every third cell
Partial(t, x, y) ==
    CASE t = 1 -> None
      [] t = 2 -> IF x = y % W THEN None ELSE KindAt(x, y)
      [] t = 3 -> IF (x + y) % 3 = 0 THEN KindAt(x, y) ELSE None

\* boards for clear_lines: at most MaxFull full rows, or all rows full
ClearBoards ==
    { [y \in Rows |-> [x \in Cols |->
          IF y \in full THEN KindAt(x, y) ELSE Partial(t, x, y)]] :
      full \in RowSets(MaxFull) \cup {Rows}, t \in 1..3 }

InitBoard ==
    \E b \in ClearBoards :
      LET g == [new_game("I", "I") EXCEPT !.board = b]
      IN  /\ game = g
          /\ gravity = gravity_delay_ms(1)
          /\ pc = "call"
          /\ last = NoOp(g)
          /\ keys = 0
          /\ ticks = 0
          /\ Idle

CallClearLines ==
    /\ pc = "call"
    /\ LET c == clear_lines(game.board)
       IN  /\ game' = [game EXCEPT !.board = c.grid]
           /\ last' = Op("clear_lines", TRUE, c.cleared, 0, 0, game)
    /\ pc' = "return"
    /\ UNCHANGED <<gravity, keys, ticks, loop>>

NextBoard == CallClearLines

SpecBoard == InitBoard /\ [][NextBoard]_vars

\* gravity_delay_ms on the levels 0..MaxLevelArg; the level is last.arg[1]
InitDelay ==
    \E level \in 0..MaxLevelArg :
      LET g == new_game("I", "I")
      IN  /\ game = g
          /\ gravity = gravity_delay_ms(1)
          /\ pc = "call"
          /\ last = Op("none", FALSE, 0, level, 0, g)
          /\ keys = 0
          /\ ticks = 0
          /\ Idle

CallGravityDelay ==
    /\ pc = "call"
    /\ last' = Op("gravity_delay_ms", TRUE, gravity_delay_ms(last.arg[1]),
                  last.arg[1], 0, game)
    /\ gravity' = gravity_delay_ms(last.arg[1])
    /\ pc' = "return"
    /\ UNCHANGED <<game, keys, ticks, loop>>

NextDelay == CallGravityDelay

SpecDelay == InitDelay /\ [][NextDelay]_vars

(***************************************************************************)
(* The properties.  They speak of a placement through the set of its       *)
(* absolute cells, not through the functions of the program.               *)
(***************************************************************************)
\* the 4 absolute cells <<x, y>> of a piece
Cells(p) == {<<p.x + Shapes[p.kind][p.rot + 1][i][1],
               p.y + Shapes[p.kind][p.rot + 1][i][2]>> : i \in 1..4}

InRange(c) == c[1] \in 0..(W - 1) /\ c[2] \in 0..(H - 1)

\* some cell of the piece is out of range or occupied
Blocked(b, p) == \E c \in Cells(p) : ~InRange(c) \/ b[c[2]][c[1]] # None

\* all cells of the piece are in range and empty
Free(b, p) == \A c \in Cells(p) : InRange(c) /\ b[c[2]][c[1]] = None

Shifted(p, dx, dy) == [p EXCEPT !.x = @ + dx, !.y = @ + dy]

FullRows(b) == {y \in Rows : \A x \in Cols : b[y][x] # None}

\* C1: collides returns true iff at least one of the piece's 4 absolute cells
\* lies outside [0,W)x[0,H) or is occupied, and false exactly when all 4 cells
\* are in range and empty.
C1_CollidesIffBlocked ==
    last.op = "collides" =>
        /\ last.ok <=> Blocked(last.pre.board, last.pre.cur)
        /\ ~last.ok <=> Free(last.pre.board, last.pre.cur)

\* collides has returned true for a piece wholly inside the board
C1_Witness ==
    /\ last.op = "collides"
    /\ last.ok
    /\ \A c \in Cells(last.pre.cur) : InRange(c)

\* C2: try_move and try_rotate are atomic: when either returns false the piece
\* is as before the call; the board is never touched; when try_move(dx, dy)
\* returns true the anchor has moved by exactly (dx, dy), kind and rotation are
\* as before, and the new placement does not collide.
C2_Atomic ==
    last.op \in {"try_move", "try_rotate"} =>
        /\ game.board = last.pre.board
        /\ ~last.ok => game.cur = last.pre.cur
        /\ (last.op = "try_move" /\ last.ok) =>
              /\ game.cur = Shifted(last.pre.cur, last.arg[1], last.arg[2])
              /\ Free(game.board, game.cur)

\* a move of a legally placed piece has failed
C2_Witness ==
    /\ last.op = "try_move"
    /\ ~last.ok
    /\ last.arg # <<0, 0>>
    /\ Free(last.pre.board, last.pre.cur)

\* the offsets of the rotation, in the order the specification gives
KickOrder == <<0, -1, 1, -2, 2>>

Rotated(p, cw, k) ==
    [p EXCEPT !.rot = IF cw THEN (@ + 1) % 4 ELSE (@ + 3) % 4, !.x = @ + k]

\* the positions in KickOrder whose placement is free
FreeKicks(b, p, cw) == {i \in 1..5 : Free(b, Rotated(p, cw, KickOrder[i]))}

\* C3: try_rotate targets (rot+1)%4 clockwise and (rot+3)%4 counter-clockwise
\* and tests the offsets 0, -1, +1, -2, +2 in that order: on success x is the
\* old x plus the first offset whose placement does not collide, y and kind are
\* unchanged; it returns false iff all five placements collide.
C3_KickOrder ==
    last.op = "try_rotate" =>
        LET b    == last.pre.board
            p    == last.pre.cur
            cw   == last.arg[1] = 1
            free == FreeKicks(b, p, cw)
        IN  /\ last.ok <=> free # {}
            /\ last.ok =>
                 \E i \in free :
                    /\ \A j \in free : i <= j
                    /\ game.cur = Rotated(p, cw, KickOrder[i])
            /\ game.cur.y = p.y
            /\ game.cur.kind = p.kind

\* a rotation has succeeded where both the offset -1 and the offset +1 were
\* free and the plain rotation was not
C3_Witness ==
    /\ last.op = "try_rotate"
    /\ last.ok
    /\ FreeKicks(last.pre.board, last.pre.cur, last.arg[1] = 1) \cap {1, 2, 3} = {2, 3}

\* C4: clear_lines returns the number n of rows that were full; afterwards
\* rows 0..n-1 are empty, every row that was not full sits lower by the number
\* of full rows that were beneath it, with its contents unchanged, and no row
\* is full.
C4_ClearLines ==
    last.op = "clear_lines" =>
        LET b0   == last.pre.board
            full == FullRows(b0)
            n    == Cardinality(full)
        IN  /\ last.n = n
            /\ \A y \in Rows : y < n => game.board[y] = EmptyRow
            /\ \A y \in Rows \ full :
                  game.board[y + Cardinality({f \in full : f > y})] = b0[y]
            /\ FullRows(game.board) = {}

\* three full rows, no two adjacent, with rows that are neither full nor empty
\* between and above them, have been cleared
C4_Witness ==
    /\ last.op = "clear_lines"
    /\ last.n = 3
    /\ LET full == FullRows(last.pre.board)
       IN  /\ \A y \in full : y > 0 /\ (y - 1) \notin full
           /\ \A y \in Rows \ full : last.pre.board[y] # EmptyRow

\* exactly the rows 2 and 5 are full and every other row is partly filled
Rows2And5(b) ==
    /\ FullRows(b) = {2, 5}
    /\ \A y \in Rows \ {2, 5} : b[y] # EmptyRow

\* C5 as the spec states it: clear_lines on a board with exactly the rows 2 and
\* 5 full returns 2, and afterwards the rows H-1 and H-2 hold what were the two
\* rows right below row 2, and the rows 0 and 1 are empty.
C5_Original ==
    (last.op = "clear_lines" /\ Rows2And5(last.pre.board)) =>
        /\ last.n = 2
        /\ game.board[H - 1] = last.pre.board[4]
        /\ game.board[H - 2] = last.pre.board[3]
        /\ game.board[0] = EmptyRow
        /\ game.board[1] = EmptyRow

\* C5 amended: clear_lines on a board with exactly the rows 2 and 5 full
\* returns 2, and afterwards the rows 5 and 4 hold what were the rows 4 and 3
\* (the two rows right below row 2, one row lower), the rows 3 and 2 hold what
\* were the rows 1 and 0, the rows 6..H-1 are as before, and the rows 0 and 1
\* are empty.
C5_Rows2And5 ==
    (last.op = "clear_lines" /\ Rows2And5(last.pre.board)) =>
        /\ last.n = 2
        /\ game.board[5] = last.pre.board[4]
        /\ game.board[4] = last.pre.board[3]
        /\ game.board[3] = last.pre.board[1]
        /\ game.board[2] = last.pre.board[0]
        /\ \A y \in 6..(H - 1) : game.board[y] = last.pre.board[y]
        /\ game.board[0] = EmptyRow
        /\ game.board[1] = EmptyRow

\* clear_lines has run on such a board
C5_Witness == last.op = "clear_lines" /\ Rows2And5(last.pre.board)

\* the operations of the loop that are key handlers without a drop
SideKeys == {"Left", "Right", "RotateCw", "RotateCcw", "Other"}

\* C6: a soft-drop key that moves the piece down one row adds exactly 1 to the
\* score and one that collides adds 0; a hard drop that descends N rows adds
\* exactly 2N; left, right, rotate and unrecognized keys leave the score alone.
C6_DropScore ==
    /\ last.op = "Down" =>
          IF Free(last.pre.board, Shifted(last.pre.cur, 0, 1))
          THEN /\ game.cur = Shifted(last.pre.cur, 0, 1)
               /\ game.score = last.pre.score + 1
          ELSE /\ game.cur = last.pre.cur
               /\ game.score = last.pre.score
    /\ last.op = "Space" =>
          /\ game.cur.y >= last.pre.cur.y
          /\ game.score = last.pre.score + 2 * (game.cur.y - last.pre.cur.y)
    /\ last.op \in SideKeys => game.score = last.pre.score

\* the second of two soft drops in a row has moved the piece: 2 points in all
C6_Witness ==
    /\ last.op = "Down"
    /\ last.ok
    /\ keys = 2
    /\ ticks = 0
    /\ last.pre.cur.y = 1
    /\ game.score = last.pre.score + 1
    /\ last.pre.score = 1

\* the board with the cells of a piece occupied
WithPiece(b, p) ==
    [y \in Rows |-> [x \in Cols |-> IF <<x, y>> \in Cells(p) THEN p.kind ELSE b[y][x]]]

\* the base points the specification gives
BasePoints(c) ==
    IF c = 1 THEN 100 ELSE IF c = 2 THEN 300 ELSE IF c = 3 THEN 500
    ELSE IF c = 4 THEN 800 ELSE 1000

\* the last step was a gravity tick that locked the piece
Locked == last.op = "tick" /\ ~last.ok

\* the rows the lock of the last tick filled
RowsFilled == Cardinality(FullRows(WithPiece(last.pre.board, last.pre.cur)))

\* C7: a lock that clears c >= 1 rows adds exactly base(c) * L to the score,
\* L the level before that lock's level-up check; a lock that clears no row
\* changes neither score nor lines nor level.
C7_LineScore ==
    Locked =>
        IF RowsFilled >= 1
        THEN /\ game.score = last.pre.score + BasePoints(RowsFilled) * last.pre.level
             /\ game.lines = last.pre.lines + RowsFilled
        ELSE /\ game.score = last.pre.score
             /\ game.lines = last.pre.lines
             /\ game.level = last.pre.level

\* four rows cleared at once at level 3: 2400 points
C7_Witness ==
    /\ Locked
    /\ RowsFilled = 4
    /\ last.pre.level = 3
    /\ game.score = last.pre.score + 2400

\* C8: the level is 1 as long as fewer than 10 lines are cleared, becomes 2 in
\* the gravity tick that takes the lines to 10 or more, and stays 2 until a
\* tick takes the lines to 20 or more; one gravity tick raises the level by at
\* most 1, and nothing else changes it.
C8_LevelSteps ==
    /\ game.lines < 10 => game.level = 1
    /\ (game.lines >= 10 /\ game.lines < 20) => game.level = 2
    /\ last.op = "tick" => game.level \in {last.pre.level, last.pre.level + 1}
    /\ last.op # "tick" => game.level = last.pre.level
    /\ (last.op = "tick" /\ last.pre.lines < 10 /\ game.lines >= 10) =>
          (last.pre.level = 1 /\ game.level = 2)

\* a tick has taken the lines from below 10 to more than 10, and the level to 2
C8_Witness ==
    /\ last.op = "tick"
    /\ last.pre.lines < 10
    /\ game.lines > 10
    /\ last.pre.level = 1
    /\ game.level = 2

\* C9: gravity_delay_ms(level) is 800 - 45 * min(level - 1, 15) for every level
\* >= 1: 800 at level 1, 125 at level 16 and at level 100, not increasing in
\* the level, never below 125, and 800 at level 0.
C9_GravityDelay ==
    last.op = "gravity_delay_ms" =>
        LET level == last.arg[1]
            d     == last.n
        IN  /\ level >= 1 =>
                 d = 800 - 45 * (IF level - 1 < 15 THEN level - 1 ELSE 15)
            /\ level = 0 => d = 800
            /\ level = 1 => d = 800
            /\ level = 16 => d = 125
            /\ level = 100 => d = 125
            /\ d >= 125
            /\ \A m \in 0..level : gravity_delay_ms(m) >= d
            /\ gravity = d

\* the delay of level 100 has been computed
C9_Witness ==
    /\ last.op = "gravity_delay_ms"
    /\ last.arg[1] = 100
    /\ last.n = 125

\* board, score, level and lines of a Game
Frozen(g) == <<g.board, g.score, g.level, g.lines>>

\* C10: spawn_next makes the stored next kind the current piece at x = 3, y = 0,
\* rotation 0; over becomes true iff that piece collides with the board, and
\* then the loop ends in the same iteration, the piece is not written into the
\* board, and board, score, level and lines never change again.
C10_SpawnOver ==
    /\ [](Locked =>
            /\ game.cur = [kind |-> last.pre.next, rot |-> 0, x |-> 3, y |-> 0]
            /\ game.over <=> Blocked(game.board, game.cur)
            /\ game.board =
                 clear_lines(WithPiece(last.pre.board, last.pre.cur)).grid)
    /\ [](game.over <=> (Locked /\ pc \in {"done", "exit"}
                                /\ Blocked(game.board, game.cur)))
    /\ [][game.over => Frozen(game') = Frozen(game)]_vars

\* the spawned piece collided, the loop has ended and the footer is printed
C10_Witness ==
    /\ game.over
    /\ Locked
    /\ pc = "exit"

\* C11: the terminal is in normal mode (raw mode off, cursor shown, alternate
\* screen left) whenever main has returned: after a quit key, after Ctrl+C,
\* after game over, and after a failed terminal call.
C11_Restored == pc \in {"exit", "failed"} => term = TermNormal

\* the gravity step of the current iteration has just taken a tick
Ticked == pc \in {"render", "done"} /\ frame.ticked

\* a board with its full rows taken out: the other rows keep their order and
\* sit at the bottom, under as many empty rows
Compacted(b) ==
    LET full == FullRows(b)
        n    == Cardinality(full)
    IN  [y \in Rows |->
            IF y < n THEN EmptyRow
            ELSE b[CHOOSE r \in Rows \ full :
                      r + Cardinality({f \in full : f > r}) = y]]

\* C12: a gravity tick whose move down collides writes the piece's 4 cells to
\* the board, then clears the full lines, then updates lines, score and level,
\* marks the board dirty and spawns the next piece, and the loop exits iff the
\* spawned piece collides; a tick whose move down succeeds changes only the
\* piece's y, by +1.  Unless the loop exits, the gravity timer is reset to the
\* timestamp of the iteration.
C12_TickOrder ==
    Ticked =>
        LET g0 == last.pre
            p  == g0.cur
        IN  /\ last.op = "tick"
            /\ IF Blocked(g0.board, Shifted(p, 0, 1))
               THEN LET b1 == WithPiece(g0.board, p)
                        n  == Cardinality(FullRows(b1))
                    IN  /\ game.board = Compacted(b1)
                        /\ game.lines = g0.lines + n
                        /\ game.score = g0.score +
                              (IF n > 0 THEN BasePoints(n) * g0.level ELSE 0)
                        /\ game.level =
                              IF n > 0 /\ (g0.lines + n) \div 10 >= g0.level
                              THEN g0.level + 1 ELSE g0.level
                        /\ board_dirty
                        /\ game.cur = Piece(g0.next, 0, 3, 0)
                        /\ (pc = "done") <=> Blocked(game.board, game.cur)
                        /\ pc = "render" => last_grav = now
               ELSE /\ game = [g0 EXCEPT !.cur = Shifted(p, 0, 1)]
                    /\ pc = "render"
                    /\ last_grav = now

\* a tick has locked a piece that filled rows under a row that stays, the
\* level has risen, the loop goes on and the timer shows the time of the tick
C12_Witness ==
    /\ Ticked
    /\ frame.locked
    /\ last.n >= 2
    /\ game.level = last.pre.level + 1
    /\ \E y \in Rows : game.board[y] # EmptyRow
    /\ pc = "render"
    /\ board_dirty
    /\ now > 0
    /\ last_grav = now

\* C13: the hard-drop key leaves the piece's kind, rot and x unchanged and
\* sets y to the largest y' >= y such that every placement from y to y' is
\* free, so that the placement at y' + 1 is blocked; it does not write the
\* board, lock, spawn or reset the gravity timer.
C13_HardDrop ==
    last.op = "Space" =>
        LET p == last.pre.cur
            b == last.pre.board
            q == game.cur
        IN  /\ q.kind = p.kind /\ q.rot = p.rot /\ q.x = p.x
            /\ q.y >= p.y
            /\ \A y \in p.y..q.y : Free(b, [p EXCEPT !.y = y])
            /\ Blocked(b, [p EXCEPT !.y = q.y + 1])
            /\ last.n = q.y - p.y
            /\ game.board = b
            /\ game.next = last.pre.next
            /\ game.lines = last.pre.lines
            /\ game.level = last.pre.level
            /\ ~game.over
            /\ pc = "gravity" =>
                  /\ last_grav = frame.timer
                  /\ ~board_dirty
                  /\ last_drawn # Nothing

\* a piece has been dropped onto a stack from above it, by at least two
\* rows, while the gravity timer has run out in the same iteration
C13_Witness ==
    /\ last.op = "Space"
    /\ pc = "gravity"
    /\ game.cur.y >= last.pre.cur.y + 2
    /\ game.cur.y < 16
    /\ now - last_grav >= gravity

\* the render step of the current iteration has just run
Rendered == pc = "input" /\ frame.rendered

\* the piece and the HUD numbers a render step has to draw
DrawsCurrent ==
    /\ frame.piece = Some(game.cur)
    /\ frame.hud = <<game.score, game.level, game.lines>>

\* C14 as the specification states it: in every iteration that reaches the
\* render step the whole board is redrawn iff the iteration's gravity step
\* locked a piece, the piece rendered before is always erased, the current
\* piece is drawn and the score, level and lines of the HUD are refreshed.
C14_Original ==
    Rendered =>
        /\ frame.board <=> frame.locked
        /\ frame.prev # Nothing
        /\ frame.erased = frame.prev
        /\ DrawsCurrent

\* C14: in every iteration that reaches the render step the whole board is
\* redrawn iff the iteration's gravity step locked a piece; the piece
\* rendered before is erased iff it did not (after a lock no piece is erased:
\* the redraw of the board writes those cells); the current piece is drawn and
\* the score, level and lines of the HUD are refreshed.
C14_Render ==
    Rendered =>
        /\ frame.board <=> frame.locked
        /\ frame.prev # Nothing
        /\ frame.erased = (IF frame.locked THEN Nothing ELSE frame.prev)
        /\ DrawsCurrent

\* a render step after a lock: the board has been redrawn and no piece erased,
\* though the piece rendered before had been moved by a key in the iteration
C14_Witness ==
    /\ Rendered
    /\ frame.locked
    /\ frame.board
    /\ frame.erased = Nothing
    /\ frame.prev # Nothing
    /\ frame.prev # Some(last.pre.cur)

\* the key arms that act on the piece
InputKeys == {"Left", "Right", "Down", "RotateCw", "RotateCcw", "Space"}

\* C15: an occupied cell of the board changes only through clear_lines: a
\* lock writes exactly 4 distinct cells, all in range and all empty just
\* before the lock, every other cell of a row that is not cleared keeps its
\* occupant, and no key (move, rotate, soft drop, hard drop) and no tick that
\* moves the piece changes any cell of the board.
C15_BoardWrites ==
    /\ Locked =>
          LET p    == last.pre.cur
              b    == last.pre.board
              b1   == WithPiece(b, p)
              full == FullRows(b1)
          IN  /\ Cardinality(Cells(p)) = 4
              /\ \A c \in Cells(p) : InRange(c) /\ b[c[2]][c[1]] = None
              /\ \A y \in Rows \ full : \A x \in Cols :
                    b[y][x] # None =>
                      game.board[y + Cardinality({f \in full : f > y})][x] = b[y][x]
    /\ last.op \in InputKeys => game.board = last.pre.board
    /\ (last.op = "tick" /\ last.ok) => game.board = last.pre.board

\* a piece has been locked on top of occupied cells without filling a row,
\* after two keys that acted on it
C15_Witness ==
    /\ Locked
    /\ last.n = 0
    /\ keys = 2
    /\ \E c \in Cells(last.pre.cur) :
          /\ c[2] + 1 < H
          /\ last.pre.board[c[2] + 1][c[1]] # None
    /\ \E y \in Rows, x \in Cols :
          last.pre.board[y][x] # None /\ game.board[y][x] = last.pre.board[y][x]

\* C16: the board has no full row at the start of a loop iteration (nor at
\* any other point between the steps of the loop), so a lock fills and
\* clear_lines returns between 0 and 4 rows, and the points of a lock are
\* never the 1000 of the match's default arm.
C16_NoFullRow ==
    /\ FullRows(game.board) = {}
    /\ Locked =>
          /\ last.n \in 0..4
          /\ RowsFilled = last.n
          /\ last.n > 0 =>
                game.score - last.pre.score \in
                    {pts * last.pre.level : pts \in {100, 300, 500, 800}}

\* the next iteration starts after a lock that has filled and cleared every
\* one of the 4 rows the piece stood in
C16_Witness ==
    /\ Locked
    /\ pc = "input"
    /\ frame.rendered
    /\ last.n = 4
    /\ Cardinality({c[2] : c \in Cells(last.pre.cur)}) = 4

\* C17: while the loop is running (over = false) the current piece does not
\* collide with the board: all its 4 cells are in range and empty, after the
\* start, after every key, after every gravity step and after every spawn
\* that does not end the game.
C17_CurFree == ~game.over => Free(game.board, game.cur)

\* a side key has been refused because the piece, dropped next to occupied
\* cells, would have moved into one of them
C17_Witness ==
    /\ last.op \in {"Left", "Right"}
    /\ ~last.ok
    /\ ~game.over
    /\ \E c \in Cells(Shifted(game.cur, last.arg[1], 0)) :
          InRange(c) /\ game.board[c[2]][c[1]] # None

\* the delay the specification gives for a level: 800 ms at level 1, 45 ms
\* less per level, not below 125 ms
DelayOf(level) == IF level >= 16 THEN 125 ELSE 800 - 45 * (level - 1)

\* C18: at every iteration boundary (and between the steps of an iteration)
\* level = lines / 10 + 1, and the gravity interval of the loop is the delay
\* of the current level.
C18_LevelOfLines ==
    /\ game.level = game.lines \div 10 + 1
    /\ gravity = DelayOf(game.level)

\* a lock has taken the lines from below 20 to 20 or more: level 3, 710 ms
C18_Witness ==
    /\ Locked
    /\ last.pre.lines < 20
    /\ last.pre.level = 2
    /\ game.lines >= 20
    /\ game.level = 3
    /\ gravity = 710

\* no key and no tick has taken the piece to a smaller y
YKept ==
    /\ last.op \in InputKeys => game.cur.y >= last.pre.cur.y
    /\ (last.op = "tick" /\ last.ok) => game.cur.y = last.pre.cur.y + 1

\* C19: no operation decreases the y of the current piece, so that, gravity
\* ticks occurring fairly, a spawned piece is locked after at most H gravity
\* ticks whatever the keys (unless the player quits before).
C19_Locks ==
    /\ [](YKept /\ ticks <= H)
    /\ <>(FirstLocked \/ pc = "exit")

\* the first piece has been locked by the 19th gravity tick, after keys that
\* acted on it
C19_Witness ==
    /\ FirstLocked
    /\ Locked
    /\ ticks = H - 1
    /\ keys = MaxKeys

\* the playfield as a full redraw of the game shows it: the colour of the
\* current piece in its cells, the colour of the occupant in the other
\* occupied cells, blank elsewhere
FullRedraw(g) ==
    [y \in Rows |-> [x \in Cols |->
        IF <<x, y>> \in Cells(g.cur) THEN Colors[g.cur.kind]
        ELSE IF g.board[y][x] # None THEN Colors[g.board[y][x]]
        ELSE Blank]]

\* C20: at the start of the loop and after the render step of every
\* iteration the screen kept by incremental drawing is the full redraw of the
\* game; the erasure of the piece drawn before blanks no occupied cell of the
\* board and nothing is written outside the playfield.
C20_ScreenIsRedraw ==
    /\ screen.stray = {}
    /\ pc = "input" =>
          /\ screen.cells = FullRedraw(game)
          /\ screen.hud = <<game.score, game.level, game.lines>>
    /\ (Rendered /\ frame.erased # Nothing) =>
          \A c \in Cells(frame.erased[1]) :
              InRange(c) /\ game.board[c[2]][c[1]] = None

\* a render step has erased a piece that shared cells with the piece it then
\* drew, on a board with occupied cells
C20_Witness ==
    /\ Rendered
    /\ frame.erased # Nothing
    /\ frame.erased # Some(game.cur)
    /\ Cells(frame.erased[1]) \cap Cells(game.cur) # {}
    /\ game.board # new_board
    /\ screen.cells = FullRedraw(game)

====
